---- MODULE Spec2Model ----
(***************************************************************************)
(* A model of coffee-filter, Rust bindings for the JVM Tool Interface.     *)
(*                                                                         *)
(* State: the handles (Jvm) leaked on the heap, the runtime's per          *)
(* environment local storage, callback table and enabled events, the       *)
(* position of the start-up adapter, and an observation of the last        *)
(* operation (its result, the native calls it made, the handlers it ran).  *)
(*                                                                         *)
(* The managed runtime is the environment: it answers native calls with    *)
(* the status codes chosen by \E in the actions, and fires events through  *)
(* the function pointers it was given with SetEventCallbacks.              *)
(***************************************************************************)
EXTENDS Integers, Sequences, FiniteSets, TLC

(***************************************************************************)
(* Bounds of the model.                                                    *)
(***************************************************************************)
\* environments GetEnv hands out in one run
MaxEnvs == 1
\* distinct handler closures the agent registers
NumHandlers == 2
\* registry fields holding a handler at one time, in one handle
MaxRegistered == 1
\* events enabled at one time, over all environments
MaxEnabled == 1
\* longest byte vector a class-file-load-hook handler returns
MaxBytes == 2
\* environments GetEnv hands out in a run that follows the handles' lifecycle
MaxLifecycleEnvs == 2

(***************************************************************************)
(* Raw values.                                                             *)
(***************************************************************************)
\* a null raw pointer (JavaVM*, jvmtiEnv*, *mut Jvm)
NULL == 0
\* the JavaVM* values from_jvm_ptr is called with: null, or the process's VM
VmPtrs == {"null", "vm"}

JVMTI_ERROR_NONE == 0
JVMTI_ERROR_WRONG_PHASE == 112

JNI_OK == 0
JNI_ERR == -1
JNI_EDETACHED == -2
JNI_EVERSION == -3

\* JvmTIVersion::JVMTI_1_0 and JvmTIVersion::LATEST (= JVMTI_21)
Versions == {805371904, 806682624}

\* jobject / jthread / jclass / JNIEnv* values: "null" or one live reference
NullRef == "null"
NA == "n/a"

\* the fields of EventCallbacks
Kinds == {"vm_init", "vm_death", "vm_start", "thread_start", "thread_end",
          "class_file_load_hook", "class_load", "class_prepare"}

\* the variants of JvmTIEvent
JvmTIEvent == {"VMInit", "VMDeath", "VMStart", "ThreadStart", "ThreadEnd",
    "ClassFileLoadHook", "ClassLoad", "ClassPrepare", "Exception",
    "ExceptionCatch", "SingleStep", "FramePop", "Breakpoint", "FieldAccess",
    "FieldModification", "MethodEntry", "MethodExit", "NativeMethodBind",
    "CompiledMethodLoad", "CompiledMethodUnload", "DynamicCodeGenerated",
    "DataDumpRequest", "MonitorWait", "MonitorWaited",
    "MonitorContendedEnter", "MonitorContendedEntered", "ResourceExhausted",
    "GarbageCollectionStart", "GarbageCollectionFinish", "ObjectFree",
    "VMObjectAlloc", "SampledObjectAlloc", "VirtualThreadStart",
    "VirtualThreadEnd"}

\* the slots of sys::jvmtiEventCallbacks
Slots == JvmTIEvent \cup {"reserved72", "reserved77", "reserved78",
                          "reserved79", "reserved85"}

Handlers == 1..NumHandlers
\* Option<Box<dyn Fn ..>>: 0 is None
None == 0

Bytes == {0, 202}

RECURSIVE SeqsUpTo(_, _)
SeqsUpTo(S, n) ==
    IF n = 0 THEN {<<>>}
    ELSE LET shorter == SeqsUpTo(S, n - 1)
         IN  shorter \cup {Append(s, x) : s \in {t \in shorter : Len(t) = n - 1}, x \in S}

ByteVecs == SeqsUpTo(Bytes, MaxBytes)

\* the status codes the runtime answers a JVM TI call with
NativeCodes == {JVMTI_ERROR_NONE, JVMTI_ERROR_WRONG_PHASE}
\* the codes GetEnv answers with
GetEnvCodes == {JNI_OK, JNI_ERR, JNI_EDETACHED, JNI_EVERSION}

\* `n as sys::jint`: the low 32 bits, read as a signed number
AsJint(n) ==
    IF n > 2147483647 THEN ((n - 2147483647) - 2147483647) - 2 ELSE n

(***************************************************************************)
(* JvmTIVersion.  A u32 is kept as its two 16-bit halves.                  *)
(***************************************************************************)
U32(hi, lo) == [hi |-> hi, lo |-> lo]

\* `&` and `|` on 16-bit halves, bit by bit
RECURSIVE BitAnd(_, _)
BitAnd(a, b) ==
    IF a = 0 \/ b = 0 THEN 0
    ELSE (a % 2) * (b % 2) + 2 * BitAnd(a \div 2, b \div 2)

RECURSIVE BitOr(_, _)
BitOr(a, b) ==
    IF a = 0 THEN b
    ELSE IF b = 0 THEN a
    ELSE (IF a % 2 = 1 \/ b % 2 = 1 THEN 1 ELSE 0) + 2 * BitOr(a \div 2, b \div 2)

\* `x & y`, `x | y`, `x << n` and `x >> n` on u32, for 0 <= n <= 16; `<<`
\* drops the bits shifted out of the word
And32(x, y) == U32(BitAnd(x.hi, y.hi), BitAnd(x.lo, y.lo))
Or32(x, y) == U32(BitOr(x.hi, y.hi), BitOr(x.lo, y.lo))
Shl32(x, n) ==
    U32((x.hi % 2^(16 - n)) * 2^n + x.lo \div 2^(16 - n),
        (x.lo % 2^(16 - n)) * 2^n)
Shr32(x, n) ==
    U32(x.hi \div 2^n,
        x.lo \div 2^n + (x.hi % 2^n) * 2^(16 - n))

\* the sys::JVMTI_VERSION_* constants of the JVM TI header: 0x30000000,
\* 0x70000000, 0x0FFF0000, 0x0000FF00, 0x000000FF, and the shifts
JVMTI_VERSION_INTERFACE_JVMTI == U32(12288, 0)
JVMTI_VERSION_MASK_INTERFACE_TYPE == U32(28672, 0)
JVMTI_VERSION_MASK_MAJOR == U32(4095, 0)
JVMTI_VERSION_MASK_MINOR == U32(0, 65280)
JVMTI_VERSION_MASK_MICRO == U32(0, 255)
JVMTI_VERSION_SHIFT_MAJOR == 16
JVMTI_VERSION_SHIFT_MINOR == 8
JVMTI_VERSION_SHIFT_MICRO == 0

\* JvmTIVersion::new(major: u16, minor: u8, micro: u8)
JvmTIVersion_new(major, minor, micro) ==
    LET major32 == U32(0, major)
        minor32 == U32(0, minor)
        micro32 == U32(0, micro)
        version_number ==
            Or32(Or32(Or32(JVMTI_VERSION_INTERFACE_JVMTI,
                           Shl32(major32, JVMTI_VERSION_SHIFT_MAJOR)),
                      Shl32(minor32, JVMTI_VERSION_SHIFT_MINOR)),
                 Shl32(micro32, JVMTI_VERSION_SHIFT_MICRO))
    IN  version_number

\* JvmTIVersion::interface_type, major, minor and micro, on the word self.0;
\* `as u16` and `as u8` keep the low bits
JvmTIVersion_interface_type(self) == And32(self, JVMTI_VERSION_MASK_INTERFACE_TYPE)
JvmTIVersion_major(self) ==
    Shr32(And32(self, JVMTI_VERSION_MASK_MAJOR), JVMTI_VERSION_SHIFT_MAJOR).lo
JvmTIVersion_minor(self) ==
    Shr32(And32(self, JVMTI_VERSION_MASK_MINOR), JVMTI_VERSION_SHIFT_MINOR).lo % 256
JvmTIVersion_micro(self) ==
    Shr32(And32(self, JVMTI_VERSION_MASK_MICRO), JVMTI_VERSION_SHIFT_MICRO).lo % 256

\* the arguments JvmTIVersion::new is called with: the released versions,
\* the largest major the mask holds, the first it does not, and the extremes
Majors == {0, 1, 9, 21, 4095, 4096, 16384, 65535}
Minors == {0, 1, 2, 255}
Micros == {0, 1, 128, 255}

NoVersion == [major |-> 0, minor |-> 0, micro |-> 0, word |-> U32(0, 0)]

(***************************************************************************)
(* Results.  tag is "Ok", "Err" (a JvmTIError, val its code), a            *)
(* JvmTICreationError variant, or "Panic".                                 *)
(***************************************************************************)
Ok(v) == [tag |-> "Ok", val |-> v]
Err(code) == [tag |-> "Err", val |-> code]
Panic == [tag |-> "Panic", val |-> 0]

\* enum JvmTIError (repr(u32)): each variant with its discriminant, the value
\* of the sys::JVMTI_ERROR_* constant of the JVM TI header
JvmTIErrorCodes ==
    [OutOfMemory |-> 110, AccessDenied |-> 111, UnAttachedThread |-> 115,
     InvalidEnvironment |-> 116, WrongPhase |-> JVMTI_ERROR_WRONG_PHASE,
     Internal |-> 113, InvalidPriority |-> 12, ThreadNotSuspended |-> 13,
     ThreadSuspended |-> 14, ThreadNotAlive |-> 15, ClassNotPrepared |-> 22,
     NoMoreFrames |-> 31, OpaqueFrame |-> 32, Duplicate |-> 40, NotFound |-> 41,
     NotMonitorOwner |-> 51, Interrupt |-> 52, UnmodifiableClass |-> 79,
     UnmodifiableModule |-> 80, NotAvailable |-> 98, AbsentInformation |-> 101,
     InvalidEventType |-> 102, NativeMethod |-> 104,
     ClassLoaderUnsupported |-> 106, InvalidThread |-> 10,
     InvalidFieldId |-> 25, InvalidModule |-> 26, InvalidMethodId |-> 23,
     InvalidLocation |-> 24, InvalidObject |-> 20, InvalidClass |-> 21,
     TypeMismatch |-> 34, InvalidSlot |-> 35, MustPossessCapability |-> 99,
     InvalidThreadGroup |-> 11, InvalidMonitor |-> 50, IllegalArgument |-> 103,
     InvalidTypeState |-> 65, UnsupportedVersion |-> 68,
     InvalidClassFormat |-> 60, CircularClassDefinition |-> 61,
     UnsupportedRedefinitionMethodAdded |-> 63,
     UnsupportedRedefinitionSchemaChanged |-> 64, FailsVerification |-> 62,
     UnsupportedRedefinitionHierarchyChanged |-> 66,
     UnsupportedRedefinitionMethodDeleted |-> 67, NamesDontMatch |-> 69,
     UnsupportedRedefinitionClassModifiersChanged |-> 70,
     UnsupportedRedefinitionMethodModifiersChanged |-> 71,
     UnsupportedRedefinitionClassAttributeChanged |-> 72,
     UnsupportedOperation |-> 73]

\* the variants of JvmTIError
JvmTIError == DOMAIN JvmTIErrorCodes

\* the status codes that are the discriminant of a variant
DefinedCodes == {JvmTIErrorCodes[v] : v \in JvmTIError}

\* the variants a u32 is a valid JvmTIError value of
VariantsOf(bits) == {v \in JvmTIError : JvmTIErrorCodes[v] = bits}

\* nonzero status codes that are no variant's discriminant: 100 is
\* JVMTI_ERROR_NULL_POINTER, which the enum leaves out; 9 and 117 lie just
\* outside the range of the discriminants
UndefinedCodes == {1, 9, 100, 117}

\* the status codes a native call returns
StatusCodes == {JVMTI_ERROR_NONE} \cup DefinedCodes \cup UndefinedCodes

\* from_error_code_unchecked reporting every code above 100 as Internal
from_error_code_unchecked_Collapses(code) == IF code > 100 THEN 113 ELSE code

\* JvmTIError::from_error_code_unchecked: transmute, the code's bits taken as
\* the enum value
from_error_code_unchecked(code) == code

\* prelude::native_call_result
native_call_result(err_code) ==
    IF err_code = JVMTI_ERROR_NONE THEN Ok(0)
    ELSE Err(from_error_code_unchecked(err_code))

\* what native_call_result can come to for a status code.  For a code
\* that is no variant's discriminant the transmute makes an invalid enum
\* value, which is undefined behaviour: the Result may carry the invalid
\* value, be taken for any variant, or (the Ok of Result<(), JvmTIError> being
\* stored in a spare value next to the discriminants' range) read as Ok
TranslationOutcomes(err_code) ==
    IF err_code = JVMTI_ERROR_NONE \/ err_code \in DefinedCodes
    THEN {native_call_result(err_code)}
    ELSE {native_call_result(err_code), Ok(0)} \cup {Err(c) : c \in DefinedCodes}

VARIABLES
    alive,          \* the process has not crashed
    heap,           \* the leaked Jvm values; a handle's address is its index
    refs,           \* addresses of the handles agent code holds a &mut to
    localStorage,   \* runtime: environment -> its local storage pointer
    eventCallbacks, \* runtime: environment -> the callback table last set
    enabled,        \* runtime: environment -> the events enabled
    startup,        \* the position of on_agent_startup
    created,        \* history: environment -> the handle from_jvm_ptr returned for it
    configured,     \* history: handle -> the handlers its modifiers asked for
    lastPush,       \* history: handle -> how its last update_callbacks ended
    envLimit,       \* runtime: how many environments GetEnv hands out in this run
    disposals,      \* runtime: the DisposeEnvironment calls made, in order
    update,         \* the position of an update_callbacks running on its own thread
    running,        \* the handler call a runtime thread is in the middle of
    last            \* what the last operation did

vars == <<alive, heap, refs, localStorage, eventCallbacks, enabled, startup,
          created, configured, lastPush, envLimit, disposals, update, running,
          last>>

Envs == 1..envLimit

\* EventCallbacks::default()
DefaultCallbacks == [k \in Kinds |-> None]

\* a table with every slot null: the runtime's table before SetEventCallbacks
NoCallbacks == [s \in Slots |-> "null"]

NoArgs == [jni |-> NA, thread |-> NA, klass |-> NA,
           class_being_redefined |-> NA, loader |-> NA, name |-> NA,
           protection_domain |-> NA, class_data |-> <<>>]

\* what a handler does when called: return (unit, None or Some(bytes)) or panic
NoBeh == [outcome |-> NA, ret |-> NA, bytes |-> <<>>]

\* Option<&OsStr>
NoOptions == [present |-> FALSE, bytes |-> <<>>]

\* the observation of an operation that has not run a trampoline
Obs(op, handle, result, calls) ==
    [op |-> op, handle |-> handle, kind |-> NA, tag |-> result.tag,
     val |-> result.val, calls |-> calls, invoked |-> <<>>,
     args |-> NoArgs, vm_ptr |-> NA, version |-> 0, env |-> NULL, exit |-> "returned",
     beh |-> NoBeh, request |-> NA, options |-> NoOptions,
     getenv |-> JNI_OK, code |-> JVMTI_ERROR_NONE, jvmti_version |-> NoVersion,
     outWritten |-> FALSE, outLen |-> 0, outPtr |-> NullRef, outBuf |-> <<>>]

NoStartup == [pc |-> "idle", jvm |-> NULL, env |-> NULL, options |-> NoOptions,
              raw |-> [null |-> TRUE, mem |-> <<>>],
              outcome |-> NA, status |-> -1, callbackCalls |-> 0]

\* no update_callbacks under way
NoUpdate == [pc |-> "idle", self |-> NULL, writes |-> <<>>,
             before |-> DefaultCallbacks, after |-> DefaultCallbacks]

\* no handler call under way
NoRunning == [jvm |-> NULL, field |-> NA, handler |-> None, valid |-> TRUE]

\* the state before the agent is loaded, in a run with n environments
InitWith(n) ==
    /\ alive = TRUE
    /\ heap = <<>>
    /\ refs = {}
    /\ envLimit = n
    /\ localStorage = [e \in 1..n |-> NULL]
    /\ eventCallbacks = [e \in 1..n |-> NoCallbacks]
    /\ enabled = [e \in 1..n |-> {}]
    /\ startup = NoStartup
    /\ created = [e \in 1..n |-> NULL]
    /\ configured = [a \in 1..n |-> DefaultCallbacks]
    /\ lastPush = [a \in 1..n |-> "none"]
    /\ disposals = <<>>
    /\ update = NoUpdate
    /\ running = NoRunning
    /\ last = Obs("init", NULL, Ok(0), <<>>)

Init == InitWith(MaxEnvs)

\* from_jvm_ptr with the null check placed after the GetEnv call
from_jvm_ptr_GetEnvFirst(vm_ptr, version, getenv, new_env, setls) ==
    IF vm_ptr = NullRef
    THEN [result |-> [tag |-> "NullJVMPointer", val |-> 0], calls |-> <<"GetEnv">>,
          heap |-> heap, localStorage |-> localStorage]
    ELSE IF getenv = JNI_OK
    THEN LET addr == Len(heap) + 1
             result == [jvmti_ptr |-> new_env, callbacks |-> DefaultCallbacks]
             stored == native_call_result(setls)
         IN  IF stored.tag = "Ok"
             THEN [result |-> Ok(addr),
                   calls |-> <<"GetEnv", "SetEnvironmentLocalStorage">>,
                   heap |-> Append(heap, result),
                   localStorage |-> [localStorage EXCEPT ![new_env] = addr]]
             ELSE [result |-> [tag |-> "JvmTIInitialization", val |-> stored.val],
                   calls |-> <<"GetEnv", "SetEnvironmentLocalStorage">>,
                   heap |-> Append(heap, result),
                   localStorage |-> localStorage]
    ELSE IF getenv = JNI_EDETACHED
    THEN [result |-> [tag |-> "Detached", val |-> 0], calls |-> <<"GetEnv">>,
          heap |-> heap, localStorage |-> localStorage]
    ELSE IF getenv = JNI_EVERSION
    THEN [result |-> [tag |-> "WrongVersion", val |-> 0], calls |-> <<"GetEnv">>,
          heap |-> heap, localStorage |-> localStorage]
    ELSE [result |-> Panic, calls |-> <<"GetEnv">>,
          heap |-> heap, localStorage |-> localStorage]

\* from_jvm_ptr with the arms for JNI_EDETACHED and JNI_EVERSION exchanged
from_jvm_ptr_SwapsStatuses(vm_ptr, version, getenv, new_env, setls) ==
    IF vm_ptr = NullRef
    THEN [result |-> [tag |-> "NullJVMPointer", val |-> 0], calls |-> <<>>,
          heap |-> heap, localStorage |-> localStorage]
    ELSE IF getenv = JNI_OK
    THEN LET jvmti_ptr == new_env
             result == [jvmti_ptr |-> jvmti_ptr, callbacks |-> DefaultCallbacks]
             addr == Len(heap) + 1
             stored == native_call_result(setls)
         IN  IF stored.tag = "Ok"
             THEN [result |-> Ok(addr),
                   calls |-> <<"GetEnv", "SetEnvironmentLocalStorage">>,
                   heap |-> Append(heap, result),
                   localStorage |-> [localStorage EXCEPT ![jvmti_ptr] = addr]]
             ELSE [result |-> [tag |-> "JvmTIInitialization", val |-> stored.val],
                   calls |-> <<"GetEnv", "SetEnvironmentLocalStorage">>,
                   heap |-> Append(heap, result),
                   localStorage |-> localStorage]
    ELSE IF getenv = JNI_EDETACHED
    THEN [result |-> [tag |-> "WrongVersion", val |-> 0], calls |-> <<"GetEnv">>,
          heap |-> heap, localStorage |-> localStorage]
    ELSE IF getenv = JNI_EVERSION
    THEN [result |-> [tag |-> "Detached", val |-> 0], calls |-> <<"GetEnv">>,
          heap |-> heap, localStorage |-> localStorage]
    ELSE [result |-> Panic, calls |-> <<"GetEnv">>,
          heap |-> heap, localStorage |-> localStorage]

\* from_jvm_ptr returning the handle although SetEnvironmentLocalStorage failed
from_jvm_ptr_IgnoresStorageError(vm_ptr, version, getenv, new_env, setls) ==
    IF vm_ptr = NullRef
    THEN [result |-> [tag |-> "NullJVMPointer", val |-> 0], calls |-> <<>>,
          heap |-> heap, localStorage |-> localStorage]
    ELSE IF getenv = JNI_OK
    THEN LET jvmti_ptr == new_env
             result == [jvmti_ptr |-> jvmti_ptr, callbacks |-> DefaultCallbacks]
             addr == Len(heap) + 1
             stored == native_call_result(setls)
         IN  [result |-> Ok(addr),
              calls |-> <<"GetEnv", "SetEnvironmentLocalStorage">>,
              heap |-> Append(heap, result),
              localStorage |-> IF stored.tag = "Ok"
                               THEN [localStorage EXCEPT ![jvmti_ptr] = addr]
                               ELSE localStorage]
    ELSE IF getenv = JNI_EDETACHED
    THEN [result |-> [tag |-> "Detached", val |-> 0], calls |-> <<"GetEnv">>,
          heap |-> heap, localStorage |-> localStorage]
    ELSE IF getenv = JNI_EVERSION
    THEN [result |-> [tag |-> "WrongVersion", val |-> 0], calls |-> <<"GetEnv">>,
          heap |-> heap, localStorage |-> localStorage]
    ELSE [result |-> Panic, calls |-> <<"GetEnv">>,
          heap |-> heap, localStorage |-> localStorage]

\* from_jvm_ptr returning the storage error itself, not wrapped
from_jvm_ptr_UnwrapsStorageError(vm_ptr, version, getenv, new_env, setls) ==
    IF vm_ptr = NullRef
    THEN [result |-> [tag |-> "NullJVMPointer", val |-> 0], calls |-> <<>>,
          heap |-> heap, localStorage |-> localStorage]
    ELSE IF getenv = JNI_OK
    THEN LET jvmti_ptr == new_env
             result == [jvmti_ptr |-> jvmti_ptr, callbacks |-> DefaultCallbacks]
             addr == Len(heap) + 1
             stored == native_call_result(setls)
         IN  IF stored.tag = "Ok"
             THEN [result |-> Ok(addr),
                   calls |-> <<"GetEnv", "SetEnvironmentLocalStorage">>,
                   heap |-> Append(heap, result),
                   localStorage |-> [localStorage EXCEPT ![jvmti_ptr] = addr]]
             ELSE [result |-> stored,
                   calls |-> <<"GetEnv", "SetEnvironmentLocalStorage">>,
                   heap |-> Append(heap, result),
                   localStorage |-> localStorage]
    ELSE IF getenv = JNI_EDETACHED
    THEN [result |-> [tag |-> "Detached", val |-> 0], calls |-> <<"GetEnv">>,
          heap |-> heap, localStorage |-> localStorage]
    ELSE IF getenv = JNI_EVERSION
    THEN [result |-> [tag |-> "WrongVersion", val |-> 0], calls |-> <<"GetEnv">>,
          heap |-> heap, localStorage |-> localStorage]
    ELSE [result |-> Panic, calls |-> <<"GetEnv">>,
          heap |-> heap, localStorage |-> localStorage]

\* from_jvm_ptr registering the address of the value before it was boxed
from_jvm_ptr_StoresTemporary(vm_ptr, version, getenv, new_env, setls) ==
    IF vm_ptr = NullRef
    THEN [result |-> [tag |-> "NullJVMPointer", val |-> 0], calls |-> <<>>,
          heap |-> heap, localStorage |-> localStorage]
    ELSE IF getenv = JNI_OK
    THEN LET addr == Len(heap) + 1
             result == [jvmti_ptr |-> new_env, callbacks |-> DefaultCallbacks]
             stored == native_call_result(setls)
         IN  IF stored.tag = "Ok"
             THEN [result |-> Ok(addr),
                   calls |-> <<"GetEnv", "SetEnvironmentLocalStorage">>,
                   heap |-> Append(heap, result),
                   localStorage |-> [localStorage EXCEPT ![new_env] = addr + 1]]
             ELSE [result |-> [tag |-> "JvmTIInitialization", val |-> stored.val],
                   calls |-> <<"GetEnv", "SetEnvironmentLocalStorage">>,
                   heap |-> Append(heap, result),
                   localStorage |-> localStorage]
    ELSE IF getenv = JNI_EDETACHED
    THEN [result |-> [tag |-> "Detached", val |-> 0], calls |-> <<"GetEnv">>,
          heap |-> heap, localStorage |-> localStorage]
    ELSE IF getenv = JNI_EVERSION
    THEN [result |-> [tag |-> "WrongVersion", val |-> 0], calls |-> <<"GetEnv">>,
          heap |-> heap, localStorage |-> localStorage]
    ELSE [result |-> Panic, calls |-> <<"GetEnv">>,
          heap |-> heap, localStorage |-> localStorage]

(***************************************************************************)
(* Jvm::from_jvm_ptr.  getenv is the status GetEnv answers with, new_env   *)
(* the environment pointer it writes on JNI_OK (a new environment with     *)
(* each call) and setls the status SetEnvironmentLocalStorage answers      *)
(* with.  The handle is boxed and leaked at the next heap address.  The    *)
(* outcome: the result, the native calls made, and the new heap and local  *)
(* storage.                                                                *)
(***************************************************************************)
from_jvm_ptr(vm_ptr, version, getenv, new_env, setls) ==
    IF vm_ptr = NullRef
    THEN [result |-> [tag |-> "NullJVMPointer", val |-> 0], calls |-> <<>>,
          heap |-> heap, localStorage |-> localStorage]
    ELSE IF getenv = JNI_OK
    THEN LET jvmti_ptr == new_env
             result == [jvmti_ptr |-> jvmti_ptr, callbacks |-> DefaultCallbacks]
             addr == Len(heap) + 1
             stored == native_call_result(setls)
         IN  IF stored.tag = "Ok"
             THEN [result |-> Ok(addr),
                   calls |-> <<"GetEnv", "SetEnvironmentLocalStorage">>,
                   heap |-> Append(heap, result),
                   localStorage |-> [localStorage EXCEPT ![jvmti_ptr] = addr]]
             ELSE [result |-> [tag |-> "JvmTIInitialization", val |-> stored.val],
                   calls |-> <<"GetEnv", "SetEnvironmentLocalStorage">>,
                   heap |-> Append(heap, result),
                   localStorage |-> localStorage]
    ELSE IF getenv = JNI_EDETACHED
    THEN [result |-> [tag |-> "Detached", val |-> 0], calls |-> <<"GetEnv">>,
          heap |-> heap, localStorage |-> localStorage]
    ELSE IF getenv = JNI_EVERSION
    THEN [result |-> [tag |-> "WrongVersion", val |-> 0], calls |-> <<"GetEnv">>,
          heap |-> heap, localStorage |-> localStorage]
    ELSE [result |-> Panic, calls |-> <<"GetEnv">>,
          heap |-> heap, localStorage |-> localStorage]

\* the environments GetEnv has handed out
UsedEnvs == {heap[a].jvmti_ptr : a \in DOMAIN heap}

\* the environments a DisposeEnvironment call has disposed of
DisposedEnvs == {disposals[i].env : i \in {j \in DOMAIN disposals : disposals[j].ok}}

\* the runtime's GetEnvironmentLocalStorage: the stored pointer, or
\* JVMTI_ERROR_INVALID_ENVIRONMENT for an environment that was disposed of
GetEnvironmentLocalStorage(env) ==
    IF env \in DisposedEnvs
    THEN [code |-> JvmTIErrorCodes.InvalidEnvironment, data |-> NULL]
    ELSE [code |-> JVMTI_ERROR_NONE, data |-> localStorage[env]]

\* from_ptr handing out whatever the local storage read left in jvm_ptr
from_ptr_Unchecked(jvmti_ptr) ==
    IF jvmti_ptr = NULL THEN Ok(NULL)
    ELSE Ok(GetEnvironmentLocalStorage(jvmti_ptr).data)

(***************************************************************************)
(* Jvm::from_ptr: Ok(address of the handle) or Panic.                      *)
(***************************************************************************)
from_ptr(jvmti_ptr) ==
    IF jvmti_ptr = NULL THEN Panic
    ELSE LET got == GetEnvironmentLocalStorage(jvmti_ptr)
         IN  IF native_call_result(got.code).tag # "Ok" THEN Panic
             ELSE IF got.data = NULL THEN Panic
             ELSE Ok(got.data)


\* impl Drop for Jvm, on the handle at address self: dispose is the status
\* DisposeEnvironment answers with; .expect() panics on an error
drop(self, dispose) ==
    LET done == native_call_result(dispose)
    IN  [result |-> IF done.tag = "Ok" THEN done ELSE Panic,
         calls |-> <<"DisposeEnvironment">>,
         disposals |-> Append(disposals, [env |-> heap[self].jvmti_ptr,
                                          by |-> "drop",
                                          ok |-> done.tag = "Ok"])]

(***************************************************************************)
(* The callback registry and its push to the runtime.                      *)
(***************************************************************************)
\* the struct literal EventCallbacks::c_callbacks returns
CallbackStruct ==
    [s \in Slots |->
        CASE s = "VMInit" -> "vm_init_callback"
          [] s = "VMDeath" -> "vm_death_callback"
          [] s = "VMStart" -> "vm_start_callback"
          [] s = "ThreadStart" -> "thread_start_callback"
          [] s = "ThreadEnd" -> "thread_end_callback"
          [] s = "ClassFileLoadHook" -> "class_file_load_hook_callback"
          [] s = "ClassLoad" -> "class_load_callback"
          [] s = "ClassPrepare" -> "class_prepare_callback"
          [] OTHER -> "null"]

\* EventCallbacks::c_callbacks: the table built for the registry `callbacks`
c_callbacks(callbacks) == CallbackStruct

\* Jvm::update_native_callback on the handle `jvm` (a Jvm value); setcb is the
\* status SetEventCallbacks answers with
update_native_callback(jvm, setcb) ==
    LET callbacks == c_callbacks(jvm.callbacks)
        pushed == native_call_result(setcb)
    IN  [result |-> pushed,
         calls |-> <<"SetEventCallbacks">>,
         eventCallbacks |-> IF pushed.tag = "Ok"
                            THEN [eventCallbacks EXCEPT ![jvm.jvmti_ptr] = callbacks]
                            ELSE eventCallbacks]

\* a modifier closure: it sets one field of the registry to None or a handler
Modifiers == [field : Kinds, handler : {None} \cup Handlers]

ApplyModifier(modifier, callbacks) ==
    [callbacks EXCEPT ![modifier.field] = modifier.handler]

\* update_callbacks writing one registry shared by all the handles
update_callbacks_SharedRegistry(self, modifier, setcb) ==
    LET modified == [heap[self] EXCEPT !.callbacks = ApplyModifier(modifier, @)]
        pushed == update_native_callback(modified, setcb)
    IN  [result |-> pushed.result,
         calls |-> <<"modifier">> \o pushed.calls,
         heap |-> [a \in DOMAIN heap |->
                    [heap[a] EXCEPT !.callbacks = ApplyModifier(modifier, @)]],
         eventCallbacks |-> pushed.eventCallbacks]

\* update_callbacks undoing the modifier's changes when the push fails
update_callbacks_RollsBack(self, modifier, setcb) ==
    LET modified == [heap[self] EXCEPT !.callbacks = ApplyModifier(modifier, @)]
        pushed == update_native_callback(modified, setcb)
    IN  [result |-> pushed.result,
         calls |-> <<"modifier">> \o pushed.calls,
         heap |-> IF pushed.result.tag = "Ok"
                  THEN [heap EXCEPT ![self] = modified] ELSE heap,
         eventCallbacks |-> pushed.eventCallbacks]

\* update_callbacks pushing the table before it runs the modifier
update_callbacks_PushesFirst(self, modifier, setcb) ==
    LET pushed == update_native_callback(heap[self], setcb)
        modified == [heap[self] EXCEPT !.callbacks = ApplyModifier(modifier, @)]
    IN  [result |-> pushed.result,
         calls |-> pushed.calls \o <<"modifier">>,
         heap |-> [heap EXCEPT ![self] = modified],
         eventCallbacks |-> pushed.eventCallbacks]

\* Jvm::update_callbacks on the handle at address self
update_callbacks(self, modifier, setcb) ==
    LET modified == [heap[self] EXCEPT !.callbacks = ApplyModifier(modifier, @)]
        pushed == update_native_callback(modified, setcb)
    IN  [result |-> pushed.result,
         calls |-> <<"modifier">> \o pushed.calls,
         heap |-> [heap EXCEPT ![self] = modified],
         eventCallbacks |-> pushed.eventCallbacks]

\* enable_event answering Ok whatever SetEventNotificationMode returned
enable_event_SwallowsError(self, event_type, thread, setmode) ==
    LET thread_ptr == IF thread = "none" THEN NullRef ELSE thread
        jvmti_ptr == heap[self].jvmti_ptr
        done == native_call_result(setmode)
    IN  [result |-> Ok(0),
         calls |-> <<"SetEventNotificationMode">>,
         request |-> thread_ptr,
         enabled |-> IF done.tag = "Ok"
                     THEN [enabled EXCEPT ![jvmti_ptr] = @ \cup {event_type}]
                     ELSE enabled]

\* Jvm::enable_event on the handle at address self; thread is "none" or a
\* thread reference, setmode the status SetEventNotificationMode answers with
enable_event(self, event_type, thread, setmode) ==
    LET thread_ptr == IF thread = "none" THEN NullRef ELSE thread
        jvmti_ptr == heap[self].jvmti_ptr
        done == native_call_result(setmode)
    IN  [result |-> done,
         calls |-> <<"SetEventNotificationMode">>,
         request |-> thread_ptr,
         enabled |-> IF done.tag = "Ok"
                     THEN [enabled EXCEPT ![jvmti_ptr] = @ \cup {event_type}]
                     ELSE enabled]

(***************************************************************************)
(* Entity wrappers: each asserts that its raw pointer is not null.         *)
(***************************************************************************)
JNI_from_ptr(jni_ptr) == IF jni_ptr = NullRef THEN Panic ELSE Ok(0)
Thread_from_ptr(jthread) == IF jthread = NullRef THEN Panic ELSE Ok(0)
Class_from_ptr(jclass) == IF jclass = NullRef THEN Panic ELSE Ok(0)
Object_from_ptr(jobject) == IF jobject = NullRef THEN Panic ELSE Ok(0)

(***************************************************************************)
(* The trampolines.  Each takes the raw arguments the runtime passes and   *)
(* beh, what the handler does if it is called.  The outcome: how the       *)
(* trampoline ends ("returned" or "panic"), the handler calls it made and  *)
(* the output parameters it wrote.                                         *)
(***************************************************************************)
Unwritten == [outWritten |-> FALSE, outLen |-> 0, outPtr |-> NullRef, outBuf |-> <<>>]

Crashed == [exit |-> "panic", invoked |-> <<>>, out |-> Unwritten]

\* a call of the closure `callback` stored in the registry field `field`
Invocation(field, callback, jvm, args) ==
    [field |-> field, handler |-> callback, jvm |-> jvm, args |-> args]

\* `if let Some(ref callback) = field { callback(..) }` for a unit handler
CallIfSome(field, jvm, args, beh) ==
    LET callback == heap[jvm].callbacks[field]
    IN  IF callback = None
        THEN [exit |-> "returned", invoked |-> <<>>, out |-> Unwritten]
        ELSE [exit |-> IF beh.outcome = "panic" THEN "panic" ELSE "returned",
              invoked |-> <<Invocation(field, callback, jvm, args)>>,
              out |-> Unwritten]

vm_init_callback(jvmti_env, a, beh) ==
    LET jvm == from_ptr(jvmti_env) IN
    IF jvm.tag = "Panic" THEN Crashed
    ELSE IF JNI_from_ptr(a.jni).tag = "Panic" THEN Crashed
    ELSE IF Thread_from_ptr(a.thread).tag = "Panic" THEN Crashed
    ELSE CallIfSome("vm_init", jvm.val,
                    [NoArgs EXCEPT !.jni = a.jni, !.thread = a.thread], beh)

vm_death_callback(jvmti_env, a, beh) ==
    LET jvm == from_ptr(jvmti_env) IN
    IF jvm.tag = "Panic" THEN Crashed
    ELSE IF JNI_from_ptr(a.jni).tag = "Panic" THEN Crashed
    ELSE CallIfSome("vm_death", jvm.val, [NoArgs EXCEPT !.jni = a.jni], beh)

vm_start_callback(jvmti_env, a, beh) ==
    LET jvm == from_ptr(jvmti_env) IN
    IF jvm.tag = "Panic" THEN Crashed
    ELSE IF JNI_from_ptr(a.jni).tag = "Panic" THEN Crashed
    ELSE CallIfSome("vm_start", jvm.val, [NoArgs EXCEPT !.jni = a.jni], beh)

thread_start_callback(jvmti_env, a, beh) ==
    LET jvm == from_ptr(jvmti_env) IN
    IF jvm.tag = "Panic" THEN Crashed
    ELSE IF JNI_from_ptr(a.jni).tag = "Panic" THEN Crashed
    ELSE IF Thread_from_ptr(a.thread).tag = "Panic" THEN Crashed
    ELSE CallIfSome("thread_start", jvm.val,
                    [NoArgs EXCEPT !.jni = a.jni, !.thread = a.thread], beh)

thread_end_callback(jvmti_env, a, beh) ==
    LET jvm == from_ptr(jvmti_env) IN
    IF jvm.tag = "Panic" THEN Crashed
    ELSE IF JNI_from_ptr(a.jni).tag = "Panic" THEN Crashed
    ELSE IF Thread_from_ptr(a.thread).tag = "Panic" THEN Crashed
    ELSE CallIfSome("thread_end", jvm.val,
                    [NoArgs EXCEPT !.jni = a.jni, !.thread = a.thread], beh)

\* class_file_load_hook_callback looking the handler up first and returning
\* at once when there is none
class_file_load_hook_callback_LookupFirst(jvmti_env, a, beh) ==
    LET jvm == from_ptr(jvmti_env) IN
    IF jvm.tag = "Panic" THEN Crashed
    ELSE IF heap[jvm.val].callbacks["class_file_load_hook"] = None
    THEN [exit |-> "returned", invoked |-> <<>>,
          out |-> [outWritten |-> TRUE, outLen |-> 0,
                   outPtr |-> NullRef, outBuf |-> <<>>]]
    ELSE IF JNI_from_ptr(a.jni).tag = "Panic" THEN Crashed
    ELSE IF Class_from_ptr(a.class_being_redefined).tag = "Panic" THEN Crashed
    ELSE IF Object_from_ptr(a.loader).tag = "Panic" THEN Crashed
    ELSE IF Object_from_ptr(a.protection_domain).tag = "Panic" THEN Crashed
    ELSE LET callback == heap[jvm.val].callbacks["class_file_load_hook"]
             args == [NoArgs EXCEPT !.jni = a.jni,
                          !.class_being_redefined = a.class_being_redefined,
                          !.name = a.name, !.loader = a.loader,
                          !.protection_domain = a.protection_domain,
                          !.class_data = a.class_data]
             invoked == <<Invocation("class_file_load_hook", callback, jvm.val, args)>>
         IN  IF beh.outcome = "panic"
             THEN [exit |-> "panic", invoked |-> invoked, out |-> Unwritten]
             ELSE IF beh.ret = "Some"
             THEN [exit |-> "returned", invoked |-> invoked,
                   out |-> [outWritten |-> TRUE,
                            outLen |-> AsJint(Len(beh.bytes)),
                            outPtr |-> IF beh.bytes = <<>> THEN "dangling" ELSE "leaked",
                            outBuf |-> beh.bytes]]
             ELSE [exit |-> "returned", invoked |-> invoked,
                   out |-> [outWritten |-> TRUE, outLen |-> 0,
                            outPtr |-> NullRef, outBuf |-> <<>>]]

\* class_file_load_hook_callback writing the length of the class data it was
\* given instead of the length of the bytes the handler returned
class_file_load_hook_callback_InputLen(jvmti_env, a, beh) ==
    LET jvm == from_ptr(jvmti_env) IN
    IF jvm.tag = "Panic" THEN Crashed
    ELSE IF JNI_from_ptr(a.jni).tag = "Panic" THEN Crashed
    ELSE IF Class_from_ptr(a.class_being_redefined).tag = "Panic" THEN Crashed
    ELSE IF Object_from_ptr(a.loader).tag = "Panic" THEN Crashed
    ELSE IF Object_from_ptr(a.protection_domain).tag = "Panic" THEN Crashed
    ELSE LET callback == heap[jvm.val].callbacks["class_file_load_hook"]
             args == [NoArgs EXCEPT !.jni = a.jni,
                          !.class_being_redefined = a.class_being_redefined,
                          !.name = a.name, !.loader = a.loader,
                          !.protection_domain = a.protection_domain,
                          !.class_data = a.class_data]
             invoked == IF callback = None THEN <<>>
                        ELSE <<Invocation("class_file_load_hook", callback, jvm.val, args)>>
         IN  IF callback # None /\ beh.outcome = "panic"
             THEN [exit |-> "panic", invoked |-> invoked, out |-> Unwritten]
             ELSE IF callback # None /\ beh.ret = "Some"
             THEN [exit |-> "returned", invoked |-> invoked,
                   out |-> [outWritten |-> TRUE,
                            outLen |-> AsJint(Len(a.class_data)),
                            outPtr |-> IF beh.bytes = <<>> THEN "dangling" ELSE "leaked",
                            outBuf |-> beh.bytes]]
             ELSE [exit |-> "returned", invoked |-> invoked,
                   out |-> [outWritten |-> TRUE, outLen |-> 0,
                            outPtr |-> NullRef, outBuf |-> <<>>]]

class_file_load_hook_callback(jvmti_env, a, beh) ==
    LET jvm == from_ptr(jvmti_env) IN
    IF jvm.tag = "Panic" THEN Crashed
    ELSE IF JNI_from_ptr(a.jni).tag = "Panic" THEN Crashed
    ELSE IF Class_from_ptr(a.class_being_redefined).tag = "Panic" THEN Crashed
    ELSE IF Object_from_ptr(a.loader).tag = "Panic" THEN Crashed
    ELSE IF Object_from_ptr(a.protection_domain).tag = "Panic" THEN Crashed
    ELSE LET callback == heap[jvm.val].callbacks["class_file_load_hook"]
             args == [NoArgs EXCEPT !.jni = a.jni,
                          !.class_being_redefined = a.class_being_redefined,
                          !.name = a.name, !.loader = a.loader,
                          !.protection_domain = a.protection_domain,
                          !.class_data = a.class_data]
             invoked == IF callback = None THEN <<>>
                        ELSE <<Invocation("class_file_load_hook", callback, jvm.val, args)>>
         IN  IF callback # None /\ beh.outcome = "panic"
             THEN [exit |-> "panic", invoked |-> invoked, out |-> Unwritten]
             ELSE IF callback # None /\ beh.ret = "Some"
             THEN [exit |-> "returned", invoked |-> invoked,
                   out |-> [outWritten |-> TRUE,
                            outLen |-> AsJint(Len(beh.bytes)),
                            outPtr |-> IF beh.bytes = <<>> THEN "dangling" ELSE "leaked",
                            outBuf |-> beh.bytes]]
             ELSE [exit |-> "returned", invoked |-> invoked,
                   out |-> [outWritten |-> TRUE, outLen |-> 0,
                            outPtr |-> NullRef, outBuf |-> <<>>]]

class_load_callback(jvmti_env, a, beh) ==
    LET jvm == from_ptr(jvmti_env) IN
    IF jvm.tag = "Panic" THEN Crashed
    ELSE IF JNI_from_ptr(a.jni).tag = "Panic" THEN Crashed
    ELSE IF Thread_from_ptr(a.thread).tag = "Panic" THEN Crashed
    ELSE IF Class_from_ptr(a.klass).tag = "Panic" THEN Crashed
    ELSE CallIfSome("class_load", jvm.val,
                    [NoArgs EXCEPT !.jni = a.jni, !.thread = a.thread,
                                   !.klass = a.klass], beh)

class_prepare_callback(jvmti_env, a, beh) ==
    LET jvm == from_ptr(jvmti_env) IN
    IF jvm.tag = "Panic" THEN Crashed
    ELSE IF JNI_from_ptr(a.jni).tag = "Panic" THEN Crashed
    ELSE IF Thread_from_ptr(a.thread).tag = "Panic" THEN Crashed
    ELSE IF Class_from_ptr(a.klass).tag = "Panic" THEN Crashed
    ELSE CallIfSome("class_prepare", jvm.val,
                    [NoArgs EXCEPT !.jni = a.jni, !.thread = a.thread,
                                   !.klass = a.klass], beh)

\* the registry field that holds the handler of an event kind
HandlerField(ev) ==
    CASE ev = "VMInit" -> "vm_init"
      [] ev = "VMDeath" -> "vm_death"
      [] ev = "VMStart" -> "vm_start"
      [] ev = "ThreadStart" -> "thread_start"
      [] ev = "ThreadEnd" -> "thread_end"
      [] ev = "ClassFileLoadHook" -> "class_file_load_hook"
      [] ev = "ClassLoad" -> "class_load"
      [] ev = "ClassPrepare" -> "class_prepare"

\* the arguments of an event's trampoline that it wraps with
\* JNI::from_ptr, Thread::from_ptr, Class::from_ptr or Object::from_ptr
WrappedPointers(ev) ==
    CASE ev \in {"VMInit", "ThreadStart", "ThreadEnd"} -> {"jni", "thread"}
      [] ev \in {"VMDeath", "VMStart"} -> {"jni"}
      [] ev \in {"ClassLoad", "ClassPrepare"} -> {"jni", "thread", "klass"}
      [] ev = "ClassFileLoadHook" ->
            {"jni", "class_being_redefined", "loader", "protection_domain"}
      [] OTHER -> {}

\* the runtime calls the function pointer it holds in a slot
CallSlot(fn, jvmti_env, a, beh) ==
    CASE fn = "vm_init_callback" -> vm_init_callback(jvmti_env, a, beh)
      [] fn = "vm_death_callback" -> vm_death_callback(jvmti_env, a, beh)
      [] fn = "vm_start_callback" -> vm_start_callback(jvmti_env, a, beh)
      [] fn = "thread_start_callback" -> thread_start_callback(jvmti_env, a, beh)
      [] fn = "thread_end_callback" -> thread_end_callback(jvmti_env, a, beh)
      [] fn = "class_file_load_hook_callback" ->
            class_file_load_hook_callback(jvmti_env, a, beh)
      [] fn = "class_load_callback" -> class_load_callback(jvmti_env, a, beh)
      [] fn = "class_prepare_callback" -> class_prepare_callback(jvmti_env, a, beh)

(***************************************************************************)
(* The runtime's side of an event: the arguments it may pass (JVM TI: for  *)
(* ClassFileLoadHook class_being_redefined is null on an ordinary class    *)
(* load, loader is null for the bootstrap loader, name and                 *)
(* protection_domain may be null), and what a handler may do.              *)
(***************************************************************************)
MaybeNull(ref) == {NullRef, ref}

EventArgs(ev) ==
    CASE ev \in {"VMInit", "ThreadStart", "ThreadEnd"} ->
            {[NoArgs EXCEPT !.jni = "jni#1", !.thread = "thread#1"]}
      [] ev \in {"VMDeath", "VMStart"} ->
            {[NoArgs EXCEPT !.jni = "jni#1"]}
      [] ev \in {"ClassLoad", "ClassPrepare"} ->
            {[NoArgs EXCEPT !.jni = "jni#1", !.thread = "thread#1", !.klass = "class#1"]}
      [] ev = "ClassFileLoadHook" ->
            {[NoArgs EXCEPT !.jni = "jni#1", !.class_being_redefined = c,
                            !.loader = l, !.name = n, !.protection_domain = p,
                            !.class_data = <<202, 254>>] :
                c \in MaybeNull("class#1"), l \in MaybeNull("loader#1"),
                n \in MaybeNull("name#1"), p \in MaybeNull("domain#1")}
      [] OTHER -> {NoArgs}

EventBehaviours(ev) ==
    IF ev = "ClassFileLoadHook"
    THEN {[outcome |-> "return", ret |-> "None", bytes |-> <<>>],
          [outcome |-> "panic", ret |-> NA, bytes |-> <<>>]}
         \cup {[outcome |-> "return", ret |-> "Some", bytes |-> b] : b \in ByteVecs}
    ELSE {[outcome |-> "return", ret |-> "unit", bytes |-> <<>>],
          [outcome |-> "panic", ret |-> NA, bytes |-> <<>>]}

\* a panic that reaches an extern "C" frame: the process aborts, or (older
\* toolchains) the unwind enters the runtime's frames
BoundaryExits(exit) == IF exit = "panic" THEN {"abort", "unwind"} ELSE {exit}

(***************************************************************************)
(* The start-up adapter.                                                   *)
(***************************************************************************)
\* the raw option strings the runtime passes: null, "" and "f=", and "f" with
\* the memory that follows its terminator
OptionPtrs == {[null |-> TRUE, mem |-> <<>>],
               [null |-> FALSE, mem |-> <<0>>],
               [null |-> FALSE, mem |-> <<102, 61, 0>>],
               [null |-> FALSE, mem |-> <<102, 0, 61>>]}

\* CStr::from_ptr(p).to_bytes(): the bytes before the first NUL
RECURSIVE CStrToBytes(_)
CStrToBytes(mem) ==
    IF mem = <<>> \/ Head(mem) = 0 THEN <<>>
    ELSE <<Head(mem)>> \o CStrToBytes(Tail(mem))

\* on_agent_startup handing the callback the option bytes with what follows
\* them in memory
on_agent_startup_KeepsTerminator(version, vm, options, getenv, new_env, setls) ==
    LET opts == IF options.null THEN NoOptions
                ELSE [present |-> TRUE, bytes |-> options.mem]
        made == from_jvm_ptr(vm, version, getenv, new_env, setls)
    IN  [options |-> opts,
         made |-> made,
         jvmti |-> IF made.result.tag = "Ok" THEN made.result ELSE Panic]

\* agent_callback::on_agent_startup up to the call of the callback: the
\* options it converted, what from_jvm_ptr did and what .expect() made of it
on_agent_startup(version, vm, options, getenv, new_env, setls) ==
    LET opts == IF options.null THEN NoOptions
                ELSE [present |-> TRUE, bytes |-> CStrToBytes(options.mem)]
        made == from_jvm_ptr(vm, version, getenv, new_env, setls)
    IN  [options |-> opts,
         made |-> made,
         jvmti |-> IF made.result.tag = "Ok" THEN made.result ELSE Panic]

\* on_agent_startup answering 0 for a failed callback and 1 for a successful one
on_agent_startup_status_Inverted(callback_result) ==
    IF callback_result = "Ok" THEN 1 ELSE 0

\* agent_callback::on_agent_startup after the callback: the status returned
\* for the callback's result ("Ok" or "Err")
on_agent_startup_status(callback_result) ==
    IF callback_result = "Ok" THEN 0 ELSE 1

(***************************************************************************)
(* Actions.                                                                *)
(***************************************************************************)
Addrs == DOMAIN heap

\* the most registry fields that hold a handler in one handle of a heap
Registered(h) ==
    LET held(a) == Cardinality({k \in Kinds : h[a].callbacks[k] # None})
    IN  IF DOMAIN h = {} THEN 0
        ELSE CHOOSE n \in 0..Cardinality(Kinds) :
                /\ \E a \in DOMAIN h : held(a) = n
                /\ \A a \in DOMAIN h : held(a) <= n

\* events enabled, over the environments
Enabled(en) == Cardinality({<<e, ev>> \in Envs \X JvmTIEvent : ev \in en[e]})

\* the thread filters the agent passes to enable_event: a Thread borrows the
\* handle, which enable_event takes by &mut, so safe code passes None
ThreadFilters == {"none"}

\* the events the agent enables: those with a trampoline, and one without
EnabledEvents == {"VMInit", "VMDeath", "VMStart", "ThreadStart", "ThreadEnd",
                  "ClassFileLoadHook", "ClassLoad", "ClassPrepare", "Exception"}

\* the environment pointers GetEnv can write next
NewEnvs == IF Envs \ UsedEnvs = {} THEN {NULL} ELSE Envs \ UsedEnvs

\* the answers of the native calls from_jvm_ptr makes; a call it does not
\* make has one (unused) answer
GetEnvAnswers(vm_ptr) == IF vm_ptr = NullRef THEN {JNI_OK} ELSE GetEnvCodes

SetStorageAnswers(vm_ptr, getenv) ==
    IF vm_ptr # NullRef /\ getenv = JNI_OK THEN NativeCodes ELSE {JVMTI_ERROR_NONE}

\* what the handler does when the runtime calls the slot function fn: whether
\* a handler is called does not depend on what it then does, and when none is
\* called there is nothing to choose
HandlerBehaviours(fn, env, ev, a) ==
    IF CallSlot(fn, env, a, NoBeh).invoked = <<>> THEN {NoBeh} ELSE EventBehaviours(ev)

\* the agent calls Jvm::from_jvm_ptr itself
FromJvmPtr ==
    /\ alive
    /\ \E vm_ptr \in VmPtrs, version \in Versions :
       \E getenv \in GetEnvAnswers(vm_ptr) :
       \E new_env \in NewEnvs, setls \in SetStorageAnswers(vm_ptr, getenv) :
        LET r == from_jvm_ptr(vm_ptr, version, getenv, new_env, setls)
            ok == r.result.tag = "Ok"
        IN
        /\ (vm_ptr # NullRef /\ getenv = JNI_OK) => new_env # NULL
        /\ heap' = r.heap
        /\ localStorage' = r.localStorage
        /\ refs' = IF ok THEN refs \cup {r.result.val} ELSE refs
        /\ created' = IF ok THEN [created EXCEPT ![new_env] = r.result.val] ELSE created
        /\ last' = [Obs("from_jvm_ptr", IF ok THEN r.result.val ELSE NULL,
                        r.result, r.calls)
                    EXCEPT !.version = version, !.vm_ptr = vm_ptr, !.getenv = getenv,
                           !.code = setls,
                           !.env = IF Len(r.heap) > Len(heap) THEN new_env ELSE NULL]
    /\ UNCHANGED <<running, envLimit, disposals, update,
                   alive, eventCallbacks, enabled, startup, configured, lastPush>>

\* the agent calls update_callbacks on a handle it holds
UpdateCallbacks ==
    /\ alive
    /\ \E self \in refs, modifier \in Modifiers, setcb \in NativeCodes :
        LET r == update_callbacks(self, modifier, setcb) IN
        /\ Registered(r.heap) <= MaxRegistered
        /\ heap' = r.heap
        /\ eventCallbacks' = r.eventCallbacks
        /\ configured' = [configured EXCEPT ![self][modifier.field] = modifier.handler]
        /\ lastPush' = [lastPush EXCEPT ![self] = IF r.result.tag = "Ok" THEN "ok" ELSE "err"]
        /\ last' = [Obs("update_callbacks", self, r.result, r.calls)
                    EXCEPT !.kind = modifier.field, !.code = setcb,
                           !.env = heap[self].jvmti_ptr]
    /\ UNCHANGED <<running, envLimit, disposals, update,
                   alive, refs, localStorage, enabled, startup, created>>

\* the agent calls enable_event on a handle it holds
EnableEvent ==
    /\ alive
    /\ \E self \in refs, event_type \in EnabledEvents, thread \in ThreadFilters,
          setmode \in NativeCodes :
        LET r == enable_event(self, event_type, thread, setmode) IN
        /\ Enabled(r.enabled) <= MaxEnabled
        /\ enabled' = r.enabled
        /\ last' = [Obs("enable_event", self, r.result, r.calls)
                    EXCEPT !.kind = event_type, !.request = r.request,
                           !.code = setmode, !.env = heap[self].jvmti_ptr]
    /\ UNCHANGED <<running, envLimit, disposals, update,
                   alive, heap, refs, localStorage, eventCallbacks, startup,
                   created, configured, lastPush>>

\* a read-only query (get_phase, get_version, set_verbose_flag,
\* get_jlocation_format) on a handle: one native call, its status translated
Query ==
    /\ alive
    /\ \E self \in Addrs, q \in {"GetPhase", "GetVersionNumber", "SetVerboseFlag",
                                 "GetJLocationFormat"},
          rc \in NativeCodes :
        /\ localStorage[heap[self].jvmti_ptr] = self
        /\ last' = [Obs("query", self, native_call_result(rc), <<q>>)
                    EXCEPT !.env = heap[self].jvmti_ptr]
    /\ UNCHANGED <<running, envLimit, disposals, update,
                   alive, heap, refs, localStorage, eventCallbacks, enabled,
                   startup, created, configured, lastPush>>

\* the runtime fires an enabled event through the slot it holds
Dispatch ==
    /\ alive
    /\ \E env \in UsedEnvs, ev \in JvmTIEvent :
        /\ eventCallbacks[env][ev] # "null"
        /\ ev \in enabled[env]
        /\ \E a \in EventArgs(ev) :
           \E beh \in HandlerBehaviours(eventCallbacks[env][ev], env, ev, a) :
            LET r == CallSlot(eventCallbacks[env][ev], env, a, beh)
                jvm == from_ptr(env)
            IN  \E exit \in BoundaryExits(r.exit) :
                /\ alive' = (exit = "returned")
                /\ last' = [Obs("dispatch", IF jvm.tag = "Ok" THEN jvm.val ELSE NULL,
                                Ok(0), <<>>)
                            EXCEPT !.kind = ev, !.env = env, !.args = a,
                                   !.invoked = r.invoked, !.exit = exit,
                                   !.beh = IF r.invoked = <<>> THEN NoBeh ELSE beh,
                                   !.outWritten = r.out.outWritten,
                                   !.outLen = r.out.outLen,
                                   !.outPtr = r.out.outPtr,
                                   !.outBuf = r.out.outBuf]
    /\ UNCHANGED <<running, envLimit, disposals, update,
                   heap, refs, localStorage, eventCallbacks, enabled, startup,
                   created, configured, lastPush>>

\* the runtime calls Agent_OnLoad / Agent_OnAttach: on_agent_startup runs up
\* to the call of the agent's callback, or panics in .expect()
StartupBegin ==
    /\ alive
    /\ startup.pc = "idle"
    /\ \E vm \in VmPtrs, version \in Versions, options \in OptionPtrs :
       \E getenv \in GetEnvAnswers(vm) :
       \E new_env \in NewEnvs, setls \in SetStorageAnswers(vm, getenv) :
        LET r == on_agent_startup(version, vm, options, getenv, new_env, setls)
            ok == r.jvmti.tag = "Ok"
        IN
        /\ (vm # NullRef /\ getenv = JNI_OK) => new_env # NULL
        /\ heap' = r.made.heap
        /\ localStorage' = r.made.localStorage
        /\ refs' = IF ok THEN refs \cup {r.jvmti.val} ELSE refs
        /\ created' = IF ok THEN [created EXCEPT ![new_env] = r.jvmti.val] ELSE created
        /\ \E exit \in BoundaryExits(IF ok THEN "running" ELSE "panic") :
            /\ alive' = ok
            /\ startup' = [pc |-> IF ok THEN "in_callback" ELSE "crashed",
                           jvm |-> IF ok THEN r.jvmti.val ELSE NULL,
                           env |-> IF ok THEN new_env ELSE NULL,
                           options |-> r.options,
                           raw |-> options,
                           outcome |-> NA,
                           status |-> -1,
                           callbackCalls |-> IF ok THEN 1 ELSE 0]
            /\ last' = [Obs("on_agent_startup", IF ok THEN r.jvmti.val ELSE NULL,
                            r.made.result, r.made.calls)
                        EXCEPT !.version = version, !.vm_ptr = vm, !.exit = exit,
                               !.getenv = getenv,
                               !.options = r.options,
                               !.env = IF Len(r.made.heap) > Len(heap) THEN new_env ELSE NULL]
    /\ UNCHANGED <<running, envLimit, disposals, update,
                   eventCallbacks, enabled, configured, lastPush>>

\* the agent's callback ends and on_agent_startup returns its status, or the
\* callback panics
StartupReturn ==
    /\ alive
    /\ startup.pc = "in_callback"
    /\ \E outcome \in {"Ok", "Err", "panic"} :
        \E exit \in BoundaryExits(IF outcome = "panic" THEN "panic" ELSE "returned") :
            /\ alive' = (exit = "returned")
            /\ startup' = [startup EXCEPT
                              !.pc = IF exit = "returned" THEN "returned" ELSE "crashed",
                              !.outcome = outcome,
                              !.status = IF exit = "returned"
                                         THEN on_agent_startup_status(outcome) ELSE -1]
            /\ last' = [Obs("on_agent_startup_return", startup.jvm, Ok(0), <<>>)
                        EXCEPT !.exit = exit, !.env = startup.env]
    /\ refs' = refs \ {startup.jvm}
    /\ UNCHANGED <<running, envLimit, disposals, update,
                   heap, localStorage, eventCallbacks, enabled, created,
                   configured, lastPush>>

\* call_jvmti!: a native function is called and its status translated
CallJvmti ==
    /\ alive
    /\ \E err_code \in StatusCodes :
       \E outcome \in TranslationOutcomes(err_code) :
        last' = [Obs("call_jvmti", NULL, outcome, <<"native function">>)
                 EXCEPT !.code = err_code]
    /\ UNCHANGED <<running, envLimit, disposals, update, alive, heap, refs, localStorage,
                   eventCallbacks, enabled, startup, created, configured, lastPush>>

\* the agent makes a version with JvmTIVersion::new
NewVersion ==
    /\ alive
    /\ \E major \in Majors, minor \in Minors, micro \in Micros :
        last' = [Obs("JvmTIVersion::new", NULL, Ok(0), <<>>)
                 EXCEPT !.jvmti_version =
                    [major |-> major, minor |-> minor, micro |-> micro,
                     word |-> JvmTIVersion_new(major, minor, micro)]]
    /\ UNCHANGED <<running, envLimit, disposals, update, alive, heap, refs,
                   localStorage, eventCallbacks, enabled, startup, created,
                   configured, lastPush>>

\* versions made from every argument
NextVersion == NewVersion

SpecVersion == Init /\ [][NextVersion]_vars

\* native calls of every status
NextTranslation == CallJvmti

SpecTranslation == Init /\ [][NextTranslation]_vars

(***************************************************************************)
(* The lifecycle of the handles.                                           *)
(***************************************************************************)
\* the first statement of every trampoline: Jvm::from_ptr on the environment
\* pointer it was called with
Recover ==
    /\ alive
    /\ \E jvmti_ptr \in {NULL} \cup Envs :
        LET jvm == from_ptr(jvmti_ptr) IN
        last' = [Obs("from_ptr", IF jvm.tag = "Ok" THEN jvm.val ELSE NULL, jvm,
                     IF jvmti_ptr = NULL THEN <<>>
                     ELSE <<"GetEnvironmentLocalStorage">>)
                 EXCEPT !.env = jvmti_ptr]
    /\ UNCHANGED <<running, envLimit, disposals, update, alive, heap, refs, localStorage,
                   eventCallbacks, enabled, startup, created, configured, lastPush>>

\* a Jvm value is dropped: the crate has no other teardown, and as the handle
\* was leaked this takes the owner reclaiming the box from its reference
DropJvm ==
    /\ alive
    /\ update.pc = "idle"
    /\ \E self \in refs, dispose \in NativeCodes :
        LET r == drop(self, dispose) IN
        /\ disposals' = r.disposals
        /\ refs' = refs \ {self}
        /\ last' = [Obs("drop", self, r.result, r.calls)
                    EXCEPT !.env = heap[self].jvmti_ptr]
    /\ UNCHANGED <<running, envLimit, update, alive, heap, localStorage, eventCallbacks,
                   enabled, startup, created, configured, lastPush>>

\* handles are created, one environment each, and recovered from their
\* environment pointers
NextHandles ==
    \/ FromJvmPtr
    \/ Recover
    \/ Query

SpecHandles == InitWith(MaxLifecycleEnvs) /\ [][NextHandles]_vars

\* handles are created, recovered and dropped
NextLifecycle ==
    \/ FromJvmPtr
    \/ Recover
    \/ DropJvm

SpecLifecycle == InitWith(MaxLifecycleEnvs) /\ [][NextLifecycle]_vars

(***************************************************************************)
(* update_callbacks on the agent's thread, step by step, while the runtime *)
(* fires events on its own threads.  Neither update_callbacks nor the      *)
(* trampolines take a lock.                                                *)
(***************************************************************************)
\* what a modifier closure does, write by write: it sets one field, or
\* clears a field and then sets it
ModifierWrites ==
    {<<w>> : w \in Modifiers}
        \cup {<<[field |-> k, handler |-> None], [field |-> k, handler |-> h]>> :
                k \in Kinds, h \in Handlers}

RECURSIVE ApplyWrites(_, _)
ApplyWrites(writes, callbacks) ==
    IF writes = <<>> THEN callbacks
    ELSE ApplyWrites(Tail(writes), ApplyModifier(Head(writes), callbacks))

\* update_callbacks is entered and the modifier closure is called
UpdateBegin ==
    /\ alive
    /\ update.pc = "idle"
    /\ \E self \in refs, writes \in ModifierWrites :
        LET after == ApplyWrites(writes, heap[self].callbacks) IN
        /\ Registered([heap EXCEPT ![self].callbacks = after]) <= MaxRegistered
        /\ update' = [pc |-> "modifying", self |-> self, writes |-> writes,
                      before |-> heap[self].callbacks, after |-> after]
        /\ last' = [Obs("update_begin", self, Ok(0), <<>>)
                    EXCEPT !.env = heap[self].jvmti_ptr]
    /\ UNCHANGED <<running, envLimit, disposals, alive, heap, refs, localStorage,
                   eventCallbacks, enabled, startup, created, configured, lastPush>>

\* the modifier closure writes one field of self.callbacks; the assignment
\* drops the Box the field held, also when a trampoline is running it
ModifierWrite ==
    /\ alive
    /\ update.pc = "modifying"
    /\ LET w == Head(update.writes)
           rest == Tail(update.writes)
       IN  /\ heap' = [heap EXCEPT ![update.self].callbacks = ApplyModifier(w, @)]
           /\ configured' = [configured EXCEPT ![update.self][w.field] = w.handler]
           /\ update' = [update EXCEPT !.writes = rest,
                                       !.pc = IF rest = <<>> THEN "pushing" ELSE "modifying"]
           /\ running' = IF /\ running.jvm = update.self
                             /\ running.field = w.field
                             /\ heap[update.self].callbacks[w.field] # None
                          THEN [running EXCEPT !.valid = FALSE]
                          ELSE running
           /\ last' = [Obs("modifier", update.self, Ok(0), <<"modifier">>)
                       EXCEPT !.kind = w.field, !.env = heap[update.self].jvmti_ptr]
    /\ UNCHANGED <<envLimit, disposals, alive, refs, localStorage, eventCallbacks,
                   enabled, startup, created, lastPush>>

\* the modifier has returned: update_native_callback pushes the table
UpdatePush ==
    /\ alive
    /\ update.pc = "pushing"
    /\ \E setcb \in NativeCodes :
        LET r == update_native_callback(heap[update.self], setcb) IN
        /\ eventCallbacks' = r.eventCallbacks
        /\ lastPush' = [lastPush EXCEPT ![update.self] =
                            IF r.result.tag = "Ok" THEN "ok" ELSE "err"]
        /\ update' = NoUpdate
        /\ last' = [Obs("update_callbacks", update.self, r.result,
                        <<"modifier">> \o r.calls)
                    EXCEPT !.env = heap[update.self].jvmti_ptr]
    /\ UNCHANGED <<running, envLimit, disposals, alive, heap, refs, localStorage, enabled,
                   startup, created, configured>>

\* a trampoline reads the field the modifier is writing at that moment: a
\* data race on the two words of an Option<Box<dyn Fn>>.  Reading the old or
\* the new value is Dispatch before or after ModifierWrite; here the read is
\* torn and the call through it takes the process down
DispatchRacing ==
    /\ alive
    /\ update.pc = "modifying"
    /\ \E env \in UsedEnvs, ev \in JvmTIEvent :
        /\ eventCallbacks[env][ev] # "null"
        /\ ev \in enabled[env]
        /\ from_ptr(env) = Ok(update.self)
        /\ Head(update.writes).field = HandlerField(ev)
        /\ Head(update.writes).handler # heap[update.self].callbacks[HandlerField(ev)]
        /\ \E a \in EventArgs(ev) :
            /\ CallSlot(eventCallbacks[env][ev], env, a, NoBeh).exit = "returned"
            /\ last' = [Obs("dispatch", update.self, Ok(0), <<>>)
                        EXCEPT !.kind = ev, !.env = env, !.args = a,
                               !.exit = "data_race"]
    /\ alive' = FALSE
    /\ UNCHANGED <<running, envLimit, disposals, update, heap, refs, localStorage,
                   eventCallbacks, enabled, startup, created, configured, lastPush>>

\* a trampoline on a runtime thread has passed its assertions, found a
\* handler in the registry and called it through `ref callback`, a borrow of
\* the Box in the registry
HandlerEnter ==
    /\ alive
    /\ running = NoRunning
    /\ \E env \in UsedEnvs, ev \in JvmTIEvent :
        /\ eventCallbacks[env][ev] # "null"
        /\ ev \in enabled[env]
        /\ \E a \in EventArgs(ev) :
            LET r == CallSlot(eventCallbacks[env][ev], env, a, NoBeh) IN
            /\ r.invoked # <<>>
            /\ running' = [jvm |-> r.invoked[1].jvm, field |-> r.invoked[1].field,
                           handler |-> r.invoked[1].handler, valid |-> TRUE]
            /\ last' = [Obs("handler_enter", r.invoked[1].jvm, Ok(0), <<>>)
                        EXCEPT !.kind = ev, !.env = env, !.args = a,
                               !.invoked = r.invoked]
    /\ UNCHANGED <<envLimit, disposals, update, alive, heap, refs, localStorage,
                   eventCallbacks, enabled, startup, created, configured, lastPush>>

\* the handler call ends: it returns to the trampoline, or, its closure
\* freed under it, it has run on freed memory
HandlerReturn ==
    /\ alive
    /\ running # NoRunning
    /\ \E exit \in IF running.valid THEN {"returned"}
                    ELSE {"returned", "use_after_free"} :
        /\ alive' = (exit = "returned")
        /\ last' = [Obs("handler_return", running.jvm, Ok(0), <<>>)
                    EXCEPT !.env = heap[running.jvm].jvmti_ptr, !.exit = exit]
    /\ running' = NoRunning
    /\ UNCHANGED <<envLimit, disposals, update, heap, refs, localStorage,
                   eventCallbacks, enabled, startup, created, configured, lastPush>>

\* the state after from_jvm_ptr, a first update_callbacks that registered
\* nothing and enable_event of one event have all returned Ok
Configured(ev) ==
    /\ alive = TRUE
    /\ heap = <<[jvmti_ptr |-> 1, callbacks |-> DefaultCallbacks]>>
    /\ refs = {1}
    /\ envLimit = MaxEnvs
    /\ localStorage = [e \in 1..MaxEnvs |-> IF e = 1 THEN 1 ELSE NULL]
    /\ eventCallbacks = [e \in 1..MaxEnvs |->
                            IF e = 1 THEN c_callbacks(DefaultCallbacks) ELSE NoCallbacks]
    /\ enabled = [e \in 1..MaxEnvs |-> IF e = 1 THEN {ev} ELSE {}]
    /\ startup = NoStartup
    /\ created = [e \in 1..MaxEnvs |-> IF e = 1 THEN 1 ELSE NULL]
    /\ configured = [a \in 1..MaxEnvs |-> DefaultCallbacks]
    /\ lastPush = [a \in 1..MaxEnvs |-> IF a = 1 THEN "ok" ELSE "none"]
    /\ disposals = <<>>
    /\ update = NoUpdate
    /\ running = NoRunning
    /\ last = [Obs("enable_event", 1, Ok(0), <<"SetEventNotificationMode">>)
               EXCEPT !.kind = ev, !.request = NullRef, !.env = 1]

InitConcurrent == \E ev \in EnabledEvents \ {"Exception"} : Configured(ev)

\* the agent's thread updates the registry of its configured handle while
\* the runtime's threads fire the enabled event
NextConcurrent ==
    \/ UpdateBegin
    \/ ModifierWrite
    \/ UpdatePush
    \/ Dispatch
    \/ DispatchRacing

SpecConcurrent == InitConcurrent /\ [][NextConcurrent]_vars

\* the agent's thread updates the registry while a runtime thread is inside
\* a handler call
NextRunning ==
    \/ UpdateBegin
    \/ ModifierWrite
    \/ UpdatePush
    \/ HandlerEnter
    \/ HandlerReturn

SpecRunning == InitConcurrent /\ [][NextRunning]_vars

\* two handles, for the environments 1 and 2, each after from_jvm_ptr, a
\* first update_callbacks that registered nothing and enable_event(ClassLoad)
\* have returned Ok
InitEnvironments ==
    LET n == MaxLifecycleEnvs
        set(e) == e \in {1, 2}
    IN  /\ alive = TRUE
        /\ heap = <<[jvmti_ptr |-> 1, callbacks |-> DefaultCallbacks],
                    [jvmti_ptr |-> 2, callbacks |-> DefaultCallbacks]>>
        /\ refs = {1, 2}
        /\ envLimit = n
        /\ localStorage = [e \in 1..n |-> IF set(e) THEN e ELSE NULL]
        /\ eventCallbacks = [e \in 1..n |->
                                IF set(e) THEN c_callbacks(DefaultCallbacks)
                                ELSE NoCallbacks]
        /\ enabled = [e \in 1..n |-> IF set(e) THEN {"ClassLoad"} ELSE {}]
        /\ startup = NoStartup
        /\ created = [e \in 1..n |-> IF set(e) THEN e ELSE NULL]
        /\ configured = [a \in 1..n |-> DefaultCallbacks]
        /\ lastPush = [a \in 1..n |-> IF set(a) THEN "ok" ELSE "none"]
        /\ disposals = <<>>
        /\ update = NoUpdate
        /\ running = NoRunning
        /\ last = [Obs("enable_event", 2, Ok(0), <<"SetEventNotificationMode">>)
                   EXCEPT !.kind = "ClassLoad", !.request = NullRef, !.env = 2]

\* the agent updates the registries of its two handles and the runtime fires
\* the event with either environment
NextEnvironments ==
    \/ UpdateCallbacks
    \/ Dispatch

SpecEnvironments == InitEnvironments /\ [][NextEnvironments]_vars

\* the agent creates its handle itself, configures it, and the runtime fires events
Next ==
    \/ FromJvmPtr
    \/ UpdateCallbacks
    \/ EnableEvent
    \/ Query
    \/ Dispatch

Spec == Init /\ [][Next]_vars

\* the runtime loads the agent through the start-up adapter, whose callback
\* configures the handle it is given
NextStartup ==
    \/ StartupBegin
    \/ StartupReturn
    \/ UpdateCallbacks
    \/ Query

SpecStartup == Init /\ [][NextStartup]_vars

(***************************************************************************)
(* The claims.                                                             *)
(***************************************************************************)
\* how many of the handler calls of the last dispatch called handler h
Calls(h) == Cardinality({i \in DOMAIN last.invoked : last.invoked[i].handler = h})

\* C1: from_jvm_ptr called with a null runtime pointer fails with
\* NullJVMPointer, whatever the requested version, and makes no native call:
\* no GetEnv, no SetEnvironmentLocalStorage, no environment and no handle.
C1_NullPointerNoNativeCalls ==
    (last.op = "from_jvm_ptr" /\ last.vm_ptr = NullRef) =>
        /\ last.tag = "NullJVMPointer"
        /\ last.calls = <<>>
        /\ last.handle = NULL
        /\ last.env = NULL

C1_Witness ==
    /\ last.op = "from_jvm_ptr"
    /\ last.vm_ptr = NullRef
    /\ last.version = 806682624
    /\ last.tag = "NullJVMPointer"

\* C2: once from_jvm_ptr has returned a handle for an environment, from_ptr
\* of that environment yields that same handle, in every later state: after
\* updates, enables, queries and dispatches; and every dispatch with that
\* environment recovers that handle and passes it to the handlers it calls.
C2_IdentityRoundTrip ==
    /\ \A e \in Envs :
        created[e] # NULL =>
            /\ from_ptr(e) = Ok(created[e])
            /\ heap[created[e]].jvmti_ptr = e
    /\ (last.op = "dispatch" /\ created[last.env] # NULL) =>
            /\ last.handle = created[last.env]
            /\ \A i \in DOMAIN last.invoked : last.invoked[i].jvm = created[last.env]

C2_Witness ==
    /\ last.op = "dispatch"
    /\ created[last.env] # NULL
    /\ last.invoked # <<>>
    /\ last.invoked[1].jvm = created[last.env]
    /\ lastPush[created[last.env]] = "ok"

\* C3: after update_callbacks returned Ok having registered handler h for
\* event kind K, a runtime invocation of the trampoline for K calls exactly
\* h, exactly once, with the recovered handle and the wrapped arguments, and
\* calls nothing else.
C3_RegisteredHandlerCalledOnce ==
    (/\ last.op = "dispatch"
     /\ last.handle # NULL
     /\ lastPush[last.handle] = "ok"
     /\ configured[last.handle][HandlerField(last.kind)] # None) =>
        last.invoked = <<Invocation(HandlerField(last.kind),
                                    configured[last.handle][HandlerField(last.kind)],
                                    last.handle, last.args)>>

\* C4: re-registering replaces: an event K calls the handler the latest
\* update set for K once and every other handler zero times, and calls no
\* handler at all when the latest update cleared K.
C4_ReplaceNotChain ==
    (last.op = "dispatch" /\ last.handle # NULL) =>
        LET h == configured[last.handle][HandlerField(last.kind)]
        IN  /\ \A g \in Handlers : Calls(g) = IF g = h THEN 1 ELSE 0
            /\ Len(last.invoked) = IF h = None THEN 0 ELSE 1

\* C5: with no handler registered for K, firing K is a no-op for every
\* argument combination the runtime may pass: no handler is called and the
\* trampoline returns without crashing.
C5_NoHandlerNoOp ==
    (/\ last.op = "dispatch"
     /\ last.handle # NULL
     /\ heap[last.handle].callbacks[HandlerField(last.kind)] = None) =>
        /\ last.invoked = <<>>
        /\ last.exit = "returned"
        /\ alive

\* C6: in the table a successful update has pushed, a slot holds a
\* trampoline only when the registry holds a handler for its event kind; the
\* slot of a kind with no handler is null.
C6_NullSlotWithoutHandler ==
    (last.op = "update_callbacks" /\ last.tag = "Ok") =>
        \A ev \in JvmTIEvent :
            eventCallbacks[last.env][ev] # "null" =>
                /\ ev \in EnabledEvents \ {"Exception"}
                /\ heap[last.handle].callbacks[HandlerField(ev)] # None

\* C7: when the class-file-load-hook handler returns Some(bytes) the output
\* length is the number of bytes and the output pointer addresses a buffer
\* holding exactly those bytes; when it returns None the output length is 0
\* and the output pointer is null.
C7_ClassFileLoadHookOutput ==
    (/\ last.op = "dispatch"
     /\ last.kind = "ClassFileLoadHook"
     /\ last.invoked # <<>>
     /\ last.beh.outcome = "return") =>
        /\ last.outWritten
        /\ last.beh.ret = "Some" =>
              /\ last.outLen = Len(last.beh.bytes)
              /\ last.outPtr # NullRef
              /\ last.outBuf = last.beh.bytes
        /\ last.beh.ret = "None" =>
              /\ last.outLen = 0
              /\ last.outPtr = NullRef

C7_Witness ==
    /\ last.op = "dispatch"
    /\ last.kind = "ClassFileLoadHook"
    /\ last.invoked # <<>>
    /\ last.beh.ret = "Some"
    /\ Len(last.beh.bytes) = MaxBytes
    /\ last.outLen = MaxBytes

\* C8: a handler that panics during dispatch is caught at the trampoline,
\* which returns normally to the runtime.
C8_HandlerPanicCaught ==
    (last.op = "dispatch" /\ last.beh.outcome = "panic") =>
        /\ last.exit = "returned"
        /\ alive

\* C9: when handle creation fails in the start-up adapter, on_agent_startup
\* returns a nonzero status, without calling the callback and without a
\* panic reaching the native caller.
C9_CreationFailureNonzeroStatus ==
    (last.op = "on_agent_startup" /\ last.tag # "Ok") =>
        /\ alive
        /\ last.exit = "returned"
        /\ startup.pc = "returned"
        /\ startup.status \notin {0, -1}
        /\ startup.callbackCalls = 0

\* C10: when handle creation succeeds, on_agent_startup calls the callback
\* once, with the handle registered for the new environment, and returns 0
\* if and only if the callback returns Ok; a callback Err gives a nonzero
\* status.
C10_StartupStatus ==
    /\ startup.pc \in {"in_callback", "returned"} =>
        /\ startup.callbackCalls = 1
        /\ startup.jvm # NULL
        /\ localStorage[startup.env] = startup.jvm
        /\ heap[startup.jvm].jvmti_ptr = startup.env
    /\ startup.pc = "returned" =>
        /\ startup.status = 0 <=> startup.outcome = "Ok"
        /\ startup.outcome = "Err" => startup.status \notin {0, -1}

C10_Witness ==
    /\ startup.pc = "returned"
    /\ startup.outcome = "Ok"
    /\ startup.status = 0
    /\ startup.callbackCalls = 1

\* C11: the start-up adapter hands the callback no options when the raw
\* option pointer is null, and otherwise the bytes of the option string up
\* to, and without, its first NUL, byte for byte.
C11_OptionsConversion ==
    startup.pc \in {"in_callback", "returned"} =>
        IF startup.raw.null
        THEN ~startup.options.present
        ELSE LET bytes == startup.options.bytes
                 mem == startup.raw.mem
             IN  /\ startup.options.present
                 /\ Len(bytes) < Len(mem)
                 /\ mem[Len(bytes) + 1] = 0
                 /\ \A i \in 1..Len(bytes) : bytes[i] = mem[i] /\ bytes[i] # 0

C11_Witness ==
    /\ startup.pc = "in_callback"
    /\ ~startup.raw.null
    /\ startup.raw.mem = <<102, 61, 0>>
    /\ startup.options = [present |-> TRUE, bytes |-> <<102, 61>>]

\* C12: a dispatch that runs while update_callbacks is under way on another
\* thread sees, in the field it reads, the handler from before the update
\* or the handler from after it, whole: never a value the modifier held in
\* between, never a torn one.
C12_ConsistentSnapshot ==
    (/\ last.op = "dispatch"
     /\ update.pc # "idle"
     /\ last.handle = update.self) =>
        /\ last.exit # "data_race"
        /\ heap[update.self].callbacks[HandlerField(last.kind)]
              \in {update.before[HandlerField(last.kind)],
                   update.after[HandlerField(last.kind)]}

\* C13: from_jvm_ptr with a non-null pointer fails with WrongVersion when
\* GetEnv answers JNI_EVERSION and with Detached when it answers
\* JNI_EDETACHED; GetEnv is the only native call, no handle is allocated and
\* no environment's local storage is written.
C13_VersionAndDetached ==
    /\ (/\ last.op = "from_jvm_ptr"
        /\ last.vm_ptr # NullRef
        /\ last.getenv \in {JNI_EVERSION, JNI_EDETACHED}) =>
            /\ last.tag = IF last.getenv = JNI_EVERSION THEN "WrongVersion"
                          ELSE "Detached"
            /\ last.calls = <<"GetEnv">>
            /\ last.handle = NULL
            /\ last.env = NULL
    /\ \A version \in Versions, getenv \in {JNI_EVERSION, JNI_EDETACHED},
          new_env \in NewEnvs, setls \in NativeCodes :
            LET r == from_jvm_ptr("vm", version, getenv, new_env, setls)
            IN  /\ r.heap = heap
                /\ r.localStorage = localStorage
                /\ r.result.tag \in {"WrongVersion", "Detached"}

C13_Witness ==
    /\ last.op = "from_jvm_ptr"
    /\ last.vm_ptr = "vm"
    /\ last.getenv = JNI_EVERSION
    /\ last.tag = "WrongVersion"
    /\ Len(heap) = 1
    /\ localStorage[1] = 1

\* C14: for every nonzero status of GetEnv other than JNI_EVERSION and
\* JNI_EDETACHED, from_jvm_ptr returns the typed error that Error
\* Translation makes of it: it neither panics nor returns a handle.
C14_OtherStatusesTranslated ==
    (/\ last.op = "from_jvm_ptr"
     /\ last.vm_ptr # NullRef
     /\ last.getenv \notin {JNI_OK, JNI_EVERSION, JNI_EDETACHED}) =>
        /\ last.tag = "JvmTIInitialization"
        /\ last.handle = NULL

\* C15: Error Translation returns success if and only if the status code is
\* JVMTI_ERROR_NONE, and returns an error for every nonzero code.
C15_SuccessOnlyForNone ==
    last.op = "call_jvmti" =>
        /\ last.tag = "Ok" <=> last.code = JVMTI_ERROR_NONE
        /\ last.code # JVMTI_ERROR_NONE => last.tag = "Err"

\* C16: on the status codes the enum defines, Error Translation is a
\* bijection between codes and variants: a defined code gives the error
\* whose value is that code, which is exactly one variant; distinct codes
\* give distinct variants; every variant comes from exactly one code.
C16_DefinedCodesBijection ==
    /\ (last.op = "call_jvmti" /\ last.code \in DefinedCodes) =>
            /\ last.tag = "Err"
            /\ last.val = last.code
            /\ Cardinality(VariantsOf(last.val)) = 1
    /\ \A c \in DefinedCodes :
            /\ TranslationOutcomes(c) = {Err(c)}
            /\ Cardinality(VariantsOf(from_error_code_unchecked(c))) = 1
    /\ \A c1, c2 \in DefinedCodes :
            c1 # c2 => VariantsOf(from_error_code_unchecked(c1))
                          \cap VariantsOf(from_error_code_unchecked(c2)) = {}
    /\ \A v \in JvmTIError :
            Cardinality({c \in DefinedCodes :
                            v \in VariantsOf(from_error_code_unchecked(c))}) = 1

C16_Witness ==
    /\ last.op = "call_jvmti"
    /\ last.code = JVMTI_ERROR_WRONG_PHASE
    /\ last.tag = "Err"
    /\ VariantsOf(last.val) = {"WrongPhase"}

\* C17: for every status code the runtime can return, also a nonzero one
\* that is no variant's value, Error Translation has one well-defined
\* outcome, which is success or one of the enumerated variants.
C17_TotalOnEveryCode ==
    last.op = "call_jvmti" =>
        /\ Cardinality(TranslationOutcomes(last.code)) = 1
        /\ \/ last.tag = "Ok"
           \/ last.tag = "Err" /\ VariantsOf(last.val) # {}

\* C18: in every reachable state no two handles hold the same environment
\* pointer, every environment GetEnv handed out has exactly one handle, and
\* a local-storage slot that was set holds the address of the handle whose
\* environment pointer is that environment; also after several from_jvm_ptr
\* calls on the same runtime pointer.
C18_OneHandlePerEnvironment ==
    /\ \A a, b \in DOMAIN heap :
            a # b => heap[a].jvmti_ptr # heap[b].jvmti_ptr
    /\ \A e \in UsedEnvs :
            Cardinality({a \in DOMAIN heap : heap[a].jvmti_ptr = e}) = 1
    /\ \A e \in Envs :
            localStorage[e] # NULL =>
                /\ localStorage[e] \in DOMAIN heap
                /\ heap[localStorage[e]].jvmti_ptr = e

C18_Witness ==
    /\ Len(heap) = 2
    /\ last.op = "from_jvm_ptr"
    /\ last.tag = "Ok"
    /\ \A e \in 1..2 : localStorage[e] # NULL /\ created[e] = localStorage[e]

\* C19: DisposeEnvironment is called at most once per environment and only
\* by explicit disposal, never because a handle's owner dropped it; and no
\* native call is made on an environment that was disposed of.
C19_ExplicitDisposalOnly ==
    /\ \A i \in DOMAIN disposals : disposals[i].by = "dispose"
    /\ \A i, j \in DOMAIN disposals :
            i # j => disposals[i].env # disposals[j].env
    /\ (last.op # "drop" /\ last.env \in DisposedEnvs) => last.calls = <<>>

\* C20: from_ptr fails loudly: for a null environment pointer, for an
\* environment whose local-storage read returns an error, and for one whose
\* local storage was never set, it panics; it returns a handle or panics,
\* never a recoverable error and never a null handle.
C20_RecoveryFailsLoudly ==
    /\ (/\ last.op = "from_ptr"
        /\ \/ last.env = NULL
           \/ last.env \in DisposedEnvs
           \/ localStorage[last.env] = NULL) =>
            /\ last.tag = "Panic"
            /\ last.handle = NULL
    /\ \A jvmti_ptr \in {NULL} \cup Envs :
            \/ from_ptr(jvmti_ptr) = Panic
            \/ from_ptr(jvmti_ptr).tag = "Ok" /\ from_ptr(jvmti_ptr).val # NULL

C20_Witness ==
    /\ last.op = "from_ptr"
    /\ last.env \in UsedEnvs
    /\ last.env \notin DisposedEnvs
    /\ localStorage[last.env] = NULL
    /\ last.tag = "Panic"

\* C21: enable_event with no thread filter makes one
\* SetEventNotificationMode call, with a null thread; when the runtime
\* accepts it the call returns Ok and the event is enabled; when the runtime
\* answers JVMTI_ERROR_WRONG_PHASE the call returns the WrongPhase error to
\* its caller, without a panic, and enables no event.
C21_EnableEventNoFilter ==
    /\ last.op = "enable_event" =>
            /\ last.calls = <<"SetEventNotificationMode">>
            /\ last.request = NullRef
            /\ alive
            /\ last.code = JVMTI_ERROR_NONE =>
                    /\ last.tag = "Ok"
                    /\ last.kind \in enabled[last.env]
            /\ last.code = JVMTI_ERROR_WRONG_PHASE =>
                    /\ last.tag = "Err"
                    /\ VariantsOf(last.val) = {"WrongPhase"}
    /\ \A self \in refs, event_type \in EnabledEvents :
            LET early == enable_event(self, event_type, "none", JVMTI_ERROR_WRONG_PHASE)
            IN  /\ early.result = Err(JvmTIErrorCodes.WrongPhase)
                /\ early.enabled = enabled

C21_Witness ==
    /\ last.op = "enable_event"
    /\ last.code = JVMTI_ERROR_WRONG_PHASE
    /\ last.tag = "Err"
    /\ last.request = NullRef
    /\ enabled[last.env] = {}

\* C22: every update_callbacks call runs the modifier once and then makes
\* one SetEventCallbacks call, in that order, handing over the whole table
\* c_callbacks builds; and no other operation (from_jvm_ptr on the handles
\* that exist, enable_event, a query, a dispatch) changes a registry, a new
\* handle starting with the default registry.
C22_MutateThenPushOnce ==
    /\ [](last.op = "update_callbacks" =>
            /\ last.calls = <<"modifier", "SetEventCallbacks">>
            /\ last.tag = "Ok" =>
                    eventCallbacks[last.env] = c_callbacks(heap[last.handle].callbacks))
    /\ [][last'.op # "update_callbacks" =>
            /\ \A a \in DOMAIN heap : heap'[a].callbacks = heap[a].callbacks
            /\ \A a \in DOMAIN heap' \ DOMAIN heap :
                    heap'[a].callbacks = DefaultCallbacks
            /\ eventCallbacks' = eventCallbacks]_vars

C22_Witness ==
    /\ last.op = "update_callbacks"
    /\ last.tag = "Ok"
    /\ last.calls = <<"modifier", "SetEventCallbacks">>
    /\ heap[last.handle].callbacks[last.kind] # None
    /\ eventCallbacks[last.env] = CallbackStruct

\* C23: an environment whose callback table holds a trampoline has its
\* local storage set to its handle: from_ptr of it succeeds and yields the
\* handle from_jvm_ptr returned for it; so every dispatch recovers a handle.
C23_RecoveryPrecondition ==
    /\ \A e \in Envs :
            (\E s \in Slots : eventCallbacks[e][s] # "null") =>
                /\ localStorage[e] # NULL
                /\ from_ptr(e) = Ok(localStorage[e])
                /\ created[e] = localStorage[e]
    /\ last.op = "dispatch" => last.handle # NULL

C23_Witness ==
    /\ last.op = "dispatch"
    /\ last.exit = "returned"
    /\ eventCallbacks[last.env][last.kind] # "null"
    /\ from_ptr(last.env) = Ok(last.handle)
    /\ last.handle # NULL

\* C26: when GetEnv succeeds and SetEnvironmentLocalStorage fails,
\* from_jvm_ptr returns JvmTIInitialization carrying the translated status
\* and no handle: the caller holds no reference, and the environment's local
\* storage stays unset.
C26_StorageFailureWrapped ==
    (/\ last.op = "from_jvm_ptr"
     /\ last.vm_ptr # NullRef
     /\ last.getenv = JNI_OK
     /\ last.code # JVMTI_ERROR_NONE) =>
        /\ last.tag = "JvmTIInitialization"
        /\ last.val = last.code
        /\ Cardinality(VariantsOf(last.val)) = 1
        /\ last.calls = <<"GetEnv", "SetEnvironmentLocalStorage">>
        /\ last.handle = NULL
        /\ last.env # NULL
        /\ created[last.env] = NULL
        /\ localStorage[last.env] = NULL
        /\ \A a \in refs : heap[a].jvmti_ptr # last.env

C26_Witness ==
    /\ last.op = "from_jvm_ptr"
    /\ last.getenv = JNI_OK
    /\ last.code = JVMTI_ERROR_WRONG_PHASE
    /\ last.tag = "JvmTIInitialization"
    /\ last.val = JvmTIErrorCodes.WrongPhase
    /\ refs = {}

\* the raw entity pointers of an event's arguments that the trampoline wraps
NullEntities(a) ==
    {f \in {"jni", "thread", "klass", "class_being_redefined", "loader",
            "protection_domain"} : a[f] = NullRef}

C25_AssertionsBeforeLookup ==
    /\ (last.op = "dispatch" /\ NullEntities(last.args) # {}) =>
            /\ last.exit \in BoundaryExits("panic")
            /\ last.invoked = <<>>
            /\ ~last.outWritten
            /\ ~alive
    /\ \A e \in Envs :
            from_ptr(e).tag = "Ok" =>
                \A ev \in EnabledEvents \ {"Exception"} :
                \A a \in EventArgs(ev), f \in WrappedPointers(ev) :
                \A beh \in EventBehaviours(ev) :
                    CallSlot(CallbackStruct[ev], e, [a EXCEPT ![f] = NullRef], beh)
                        = Crashed

C25_Witness ==
    /\ last.op = "dispatch"
    /\ last.kind = "ClassFileLoadHook"
    /\ last.args.class_being_redefined = NullRef
    /\ last.args.loader # NullRef
    /\ last.args.protection_domain # NullRef
    /\ heap[last.handle].callbacks["class_file_load_hook"] = None
    /\ last.exit = "abort"
    /\ ~alive

\* C27: a handler closure that a trampoline is running is not destroyed
\* before it returns, also when update_callbacks replaces or clears the
\* handler of that kind on another thread meanwhile.
C27_RunningHandlerStaysValid ==
    /\ running.handler # None => running.valid
    /\ last.op = "handler_return" => last.exit = "returned"

\* C28: the registry belongs to one environment's handle: an
\* update_callbacks on one handle leaves the registry of every other handle
\* and the table of every other environment as they were, and an event
\* delivered with an environment pointer recovers that environment's handle
\* and calls exactly the handler its registry holds for the event, none from
\* another handle's registry.
C28_RegistryPerEnvironment ==
    /\ [][last'.op = "update_callbacks" =>
            \A b \in DOMAIN heap :
                b # last'.handle =>
                    /\ heap'[b] = heap[b]
                    /\ eventCallbacks'[heap[b].jvmti_ptr]
                            = eventCallbacks[heap[b].jvmti_ptr]]_vars
    /\ [](last.op = "dispatch" =>
            LET field == HandlerField(last.kind)
                h == heap[created[last.env]].callbacks[field]
            IN  /\ last.handle = created[last.env]
                /\ heap[last.handle].jvmti_ptr = last.env
                /\ last.invoked = IF h = None THEN <<>>
                                  ELSE <<Invocation(field, h, last.handle, last.args)>>)

C28_Witness ==
    /\ last.op = "dispatch"
    /\ last.env = 1
    /\ heap[1].callbacks["class_load"] = 1
    /\ heap[2].callbacks["class_load"] = 2
    /\ Len(last.invoked) = 1
    /\ last.invoked[1].handler = 1
    /\ last.invoked[1].jvm = 1

\* C29: for every major, minor and micro, the version JvmTIVersion::new
\* makes gives the three back through major(), minor() and micro(), its
\* interface_type() is the JVM TI tag, and its word is the tag or-ed with the
\* shifted fields.
C29_VersionRoundTrip ==
    last.op = "JvmTIVersion::new" =>
        LET v == last.jvmti_version IN
        /\ JvmTIVersion_major(v.word) = v.major
        /\ JvmTIVersion_minor(v.word) = v.minor
        /\ JvmTIVersion_micro(v.word) = v.micro
        /\ JvmTIVersion_interface_type(v.word) = JVMTI_VERSION_INTERFACE_JVMTI
        /\ v.word = Or32(JVMTI_VERSION_INTERFACE_JVMTI,
                         Or32(Shl32(U32(0, v.major), JVMTI_VERSION_SHIFT_MAJOR),
                              Or32(Shl32(U32(0, v.minor), JVMTI_VERSION_SHIFT_MINOR),
                                   Shl32(U32(0, v.micro), JVMTI_VERSION_SHIFT_MICRO))))
====
